---------------------------- MODULE Spec2Model ----------------------------
(***************************************************************************)
(* State-machine model of the Agilent 34410A IVI DMM driver                *)
(* (ivi/agilent/agilent34410A.py).                                         *)
(*                                                                         *)
(* The driver object holds the cached attribute values, the per-attribute  *)
(* cache-validity flags and the simulate flag.  Every driver method is one *)
(* action.  The instrument at the other end of the transport is modelled   *)
(* by the configuration the driver is able to change: its selected         *)
(* function (inst_function) and the names of its memory slots              *)
(* (inst_names).  The variable `last' records, for                         *)
(* the most recent call, its name, arguments, outcome, return value and    *)
(* the transport traffic it caused.                                        *)
(***************************************************************************)
EXTENDS Integers, Sequences, FiniteSets, TLC

VARIABLES
    _driver_operation_simulate,
    _measurement_function,
    _range,
    _auto_range,
    _resolution,
    _trigger_delay,
    _trigger_delay_auto,
    _trigger_source,
    _identity_instrument_manufacturer,
    _identity_instrument_model,
    _identity_instrument_firmware_revision,
    _cache_valid,       \* the validity flag of every cached attribute
    inst_function,      \* the function token selected on the instrument
    inst_names,         \* the name the instrument holds for each memory slot
    last                \* the most recent call: what it was and what it did

attrs == <<_measurement_function, _range, _auto_range, _resolution,
           _trigger_delay, _trigger_delay_auto, _trigger_source>>

identity == <<_identity_instrument_manufacturer, _identity_instrument_model,
              _identity_instrument_firmware_revision>>

instrument == <<inst_function, inst_names>>

vars == <<_driver_operation_simulate, attrs, identity, _cache_valid,
          instrument, last>>

-----------------------------------------------------------------------------
(* Bounds of the model *)

\* how many entries of the function table, in table order, callers pass
MaxFuncs == 2

\* the instrument returns the numbers 0..MaxReading as readings and as
\* self-test result codes
MaxReading == 1

\* memory indices run from 1 - IndexSlack to memory_size + IndexSlack
IndexSlack == 1

\* how many attributes and slot names a caller keeps away from their
\* initial values at the same time
MaxTouched == 1

-----------------------------------------------------------------------------
(* Command mapper *)

MeasurementFunctionMapping ==
    ("dc_volts"             :> "volt")    @@
    ("ac_volts"             :> "volt:ac") @@
    ("dc_current"           :> "curr")    @@
    ("ac_current"           :> "curr:ac") @@
    ("two_wire_resistance"  :> "res")     @@
    ("four_wire_resistance" :> "fres")    @@
    ("frequency"            :> "freq")    @@
    ("period"               :> "per")     @@
    ("temperature"          :> "temp")    @@
    ("capacitance"          :> "cap")     @@
    ("continuity"           :> "cont")    @@
    ("diode"                :> "diod")

\* the keys of the table in the order the source lists them
FunctionOrder ==
    <<"dc_volts", "ac_volts", "dc_current", "ac_current",
      "two_wire_resistance", "four_wire_resistance", "frequency", "period",
      "temperature", "capacitance", "continuity", "diode">>

\* the names the module binds (its imports, its table and its class);
\* evaluating any other global name raises NameError
ModuleNames ==
    {"time", "struct", "ivi", "dmm", "MeasurementFunctionMapping",
     "agilent34410A"}

Defined(name) == name \in ModuleNames

memory_size == 5

-----------------------------------------------------------------------------
(* Python values and conversions *)

\* A value handed to a numeric setter: a number, or an object float()
\* cannot convert.
Num(n) == [isnum |-> TRUE, n |-> n]
NotANumber == [isnum |-> FALSE, n |-> 0]

NumValues == {Num(0), Num(1), NotANumber}

\* float(value) of a caller's value: the number, or ValueError
CanConvert(value) == value.isnum
float(value) == value.n

\* decimal texts of the numbers 0, 1, 2, ... in order
NumText == <<"0", "1", "2", "3", "4", "5", "6", "7", "8", "9">>

\* float(text) / int(text) of a reply: the number, or ValueError
IsNumText(text) == \E i \in 1..Len(NumText) : NumText[i] = text
ParseNum(text) == (CHOOSE i \in 1..Len(NumText) : NumText[i] = text) - 1

\* str.split(",") on the replies the model uses
split(s) ==
    CASE s = "AGILENT TECHNOLOGIES,34410A,MY47000001,2.35"
              -> <<"AGILENT TECHNOLOGIES", "34410A", "MY47000001", "2.35">>
      [] s = "Agilent Technologies,34410A,MY47000001"
              -> <<"Agilent Technologies", "34410A", "MY47000001">>
      [] s = "0,\"No error\""  -> <<"0", "\"No error\"">>
      [] s = "1, \"No error\" " -> <<"1", " \"No error\" ">>
      [] s = "0,\"a\",\"b\""   -> <<"0", "\"a\"", "\"b\"">>
      [] OTHER                 -> <<s>>

\* str.strip(' "') on the strings the model uses
strip(s) ==
    CASE s = "\"No error\""    -> "No error"
      [] s = " \"No error\" "  -> "No error"
      [] s = "\"cal-ref\""     -> "cal-ref"
      [] s = " \"cal-ref\""    -> "cal-ref"
      [] s = "\"\""            -> ""
      [] s = "\"volt\"" -> "volt"
      [] s = "\"volt:ac\"" -> "volt:ac"
      [] s = "\"curr\"" -> "curr"
      [] s = "\"curr:ac\"" -> "curr:ac"
      [] s = "\"res\"" -> "res"
      [] s = "\"fres\"" -> "fres"
      [] s = "\"freq\"" -> "freq"
      [] s = "\"per\"" -> "per"
      [] s = "\"temp\"" -> "temp"
      [] s = "\"cap\"" -> "cap"
      [] s = "\"cont\"" -> "cont"
      [] s = "\"diod\"" -> "diod"
      [] OTHER                 -> s

\* str.lower() on the function tokens an instrument answers with
lower(s) ==
    CASE s = "VOLT"    -> "volt"
      [] s = "VOLT:AC" -> "volt:ac"
      [] s = "CURR"    -> "curr"
      [] s = "CURR:AC" -> "curr:ac"
      [] s = "RES"     -> "res"
      [] s = "FRES"    -> "fres"
      [] s = "FREQ"    -> "freq"
      [] s = "PER"     -> "per"
      [] s = "TEMP"    -> "temp"
      [] s = "CAP"     -> "cap"
      [] s = "CONT"    -> "cont"
      [] s = "DIOD"    -> "diod"
      [] s = "\"VOLT\"" -> "\"volt\""
      [] s = "\"VOLT:AC\"" -> "\"volt:ac\""
      [] s = "\"CURR\"" -> "\"curr\""
      [] s = "\"CURR:AC\"" -> "\"curr:ac\""
      [] s = "\"RES\"" -> "\"res\""
      [] s = "\"FRES\"" -> "\"fres\""
      [] s = "\"FREQ\"" -> "\"freq\""
      [] s = "\"PER\"" -> "\"per\""
      [] s = "\"TEMP\"" -> "\"temp\""
      [] s = "\"CAP\"" -> "\"cap\""
      [] s = "\"CONT\"" -> "\"cont\""
      [] s = "\"DIOD\"" -> "\"diod\""
      [] OTHER         -> s

\* len(s) and s[:n] on the strings the model uses
len(s) ==
    CASE s = "AGILENT TECHNOLOGIES,34410A" -> 27
      [] s = "Not available while simulating" -> 30
      [] s = "Agilent Technologies" -> 20
      [] s = "AGILENT TECHNOLOGIES" -> 20
      [] s = "34410A" -> 6
      [] s = "2.35" -> 4
      [] s = "AGILENT TECHNOLOGIES,34410A,MY47000001,2.35" -> 43
      [] s = "Agilent Technologies,34410A,MY47000001" -> 38
      [] s = "" -> 0

slice(s, n) ==
    IF len(s) <= n THEN s
    ELSE IF s = "Not available while simulating" /\ n = 27
    THEN "Not available while simulat"
    ELSE IF s = "AGILENT TECHNOLOGIES,34410A,MY47000001,2.35" /\ n = 27
    THEN "AGILENT TECHNOLOGIES,34410A"
    ELSE IF s = "Agilent Technologies,34410A,MY47000001" /\ n = 27
    THEN "Agilent Technologies,34410A"
    ELSE s

\* bool(value) of a caller's truth value, str(value) of a caller's string,
\* int(value) of a caller's integer
bool(value) == value = TRUE
str(value) == value
int(value) == value

-----------------------------------------------------------------------------
(* The attribute framework the driver builds on, the transport and the    *)
(* instrument                                                              *)

AttributeNames ==
    {"measurement_function", "range", "auto_range", "resolution",
     "trigger_delay", "trigger_delay_auto", "trigger_source"}

IdentityNames ==
    {"identity_instrument_manufacturer", "identity_instrument_model",
     "identity_instrument_firmware_revision"}

\* self._set_cache_valid(valid, tag): the flags after marking `tag'
_set_cache_valid(valid, tag) == [_cache_valid EXCEPT ![tag] = valid]

\* self._get_cache_valid() called from the accessor of `tag'
_get_cache_valid(tag) == _cache_valid[tag]

\* self.driver_operation.invalidate_all_attributes(): the flags afterwards
invalidate_all_attributes ==
    [tag \in AttributeNames \cup IdentityNames |-> FALSE]

None == "None"

\* one use of the transport (or of the clock) by a call
_write(text) == [kind |-> "write", text |-> text]
_ask(text) == [kind |-> "ask", text |-> text]
_read == [kind |-> "read", text |-> <<>>]
sleep(seconds) == [kind |-> "sleep", text |-> <<seconds>>]
_clear == [kind |-> "clear", text |-> <<>>]

\* a query or read that came back with text `reply'
Answered(event, reply) ==
    [kind |-> event.kind, text |-> event.text, reply |-> reply]

\* the reply texts the transport handed back during a call
Replies(io) ==
    {io[i].reply : i \in {j \in 1..Len(io) : "reply" \in DOMAIN io[j]}}

\* the record of a call: what was called with what, how it ended, what it
\* returned, its uses of the transport in order, and the validity flags it
\* found
Call(op, attr, arg, outcome, ret, io) ==
    [op |-> op, attr |-> attr, arg |-> arg, outcome |-> outcome,
     ret |-> ret, io |-> io, was_valid |-> _cache_valid]

\* what a query may yield: one of the reply texts, or no answer because
\* the transport fails
NoAnswer == "<no answer>"

Answers(replies) == replies \cup {NoAnswer}

Count(io, kind) == Cardinality({i \in 1..Len(io) : io[i].kind = kind})
Writes(io) == Count(io, "write")
Queries(io) == Count(io, "ask")
TransportCalls(io) == Writes(io) + Queries(io) + Count(io, "read")

\* the function the instrument selects on *RST
InstResetFunction == "volt"

\* what an instrument with function token `token' may answer to
\* :sense:function?  (keywords are case-insensitive; the instrument's own
\* response format puts the keyword in double quotes)
FunctionReplies(token) ==
    {r \in {"volt", "volt:ac", "curr", "curr:ac", "res", "fres", "freq",
            "per", "temp", "cap", "cont", "diod",
            "VOLT", "VOLT:AC", "CURR", "CURR:AC", "RES", "FRES", "FREQ",
            "PER", "TEMP", "CAP", "CONT", "DIOD"} : lower(r) = token}
        \cup {r \in {"\"VOLT\"", "\"VOLT:AC\"", "\"CURR\"", "\"CURR:AC\"",
                     "\"RES\"", "\"FRES\"", "\"FREQ\"", "\"PER\"",
                     "\"TEMP\"", "\"CAP\"", "\"CONT\"", "\"DIOD\""} :
                    strip(lower(r)) = token}

\* the object a global name of the module is bound to, as a mapping
Binding(name) ==
    IF name = "MeasurementFunctionMapping" THEN MeasurementFunctionMapping
    ELSE <<>>

-----------------------------------------------------------------------------
(* Values callers pass *)

Min(a, b) == IF a < b THEN a ELSE b

FunctionValues ==
    {FunctionOrder[i] : i \in 1..Min(MaxFuncs, Len(FunctionOrder))}
        \cup {"ac_plus_dc_volts"}

AutoValues == {"off", "on", "once", "sometimes"}

BoolValues == BOOLEAN

SourceValues == {"bus"}

-----------------------------------------------------------------------------
(* The driver after construction *)

Init ==
    /\ _driver_operation_simulate \in BOOLEAN
    /\ _measurement_function = "dc_volts"
    /\ _range = 0
    /\ _auto_range = "off"
    /\ _resolution = 0
    /\ _trigger_delay = 0
    /\ _trigger_delay_auto = FALSE
    /\ _trigger_source = ""
    /\ _identity_instrument_manufacturer = "Agilent Technologies"
    /\ _identity_instrument_model = ""
    /\ _identity_instrument_firmware_revision = ""
    /\ _cache_valid = [tag \in AttributeNames \cup IdentityNames |-> TRUE]
    /\ inst_function = InstResetFunction
    /\ inst_names = [slot \in 1..memory_size |-> ""]
    /\ last = Call("__init__", "", None, "ok", None, <<>>)

\* a call that changes nothing but the record of the last call
Returns(call) ==
    /\ last' = call
    /\ UNCHANGED <<_driver_operation_simulate, attrs, identity, _cache_valid,
                   instrument>>

\* driver_operation.simulate = value
_set_driver_operation_simulate(value) ==
    /\ _driver_operation_simulate' = value
    /\ last' = Call("set_simulate", "", value, "ok", None, <<>>)
    /\ UNCHANGED <<attrs, identity, _cache_valid, instrument>>

-----------------------------------------------------------------------------
(* Attribute accessors *)

_get_measurement_function ==
    IF ~_driver_operation_simulate /\ ~_get_cache_valid("measurement_function")
    THEN \E reply \in Answers(FunctionReplies(inst_function)) :
            LET sent == <<_ask(<<":sense:function?">>)>>
                io == <<Answered(sent[1], reply)>>
                value == lower(reply)
                keys == {k \in DOMAIN Binding("TriggerTypeMapping") :
                            Binding("TriggerTypeMapping")[k] = value}
            IN  IF reply = NoAnswer
                THEN Returns(Call("get", "measurement_function", None,
                                  "TransportError", None, sent))
                ELSE IF ~Defined("TriggerTypeMapping")
                THEN Returns(Call("get", "measurement_function", None,
                                  "NameError", None, io))
                ELSE IF keys = {}
                THEN Returns(Call("get", "measurement_function", None,
                                  "IndexError", None, io))
                ELSE \E k \in keys :
                        /\ _measurement_function' = k
                        /\ _cache_valid' =
                              _set_cache_valid(TRUE, "measurement_function")
                        /\ last' = Call("get", "measurement_function", None,
                                        "ok", k, io)
                        /\ UNCHANGED <<_driver_operation_simulate, _range,
                                       _auto_range, _resolution,
                                       _trigger_delay, _trigger_delay_auto,
                                       _trigger_source, identity,
                                       instrument>>
    ELSE Returns(Call("get", "measurement_function", None, "ok",
                      _measurement_function, <<>>))

\* a faulty setter that stores the value and marks it valid before it
\* writes to the instrument
_set_measurement_function_storing_first(value) ==
    IF value \notin DOMAIN MeasurementFunctionMapping
    THEN Returns(Call("set", "measurement_function", value,
                      "ValueNotSupportedException", None, <<>>))
    ELSE \E ok \in BOOLEAN :
            LET io == IF _driver_operation_simulate THEN <<>>
                      ELSE <<_write(<<":sense:function %s",
                                      MeasurementFunctionMapping[value]>>)>>
                failed == ~_driver_operation_simulate /\ ~ok
            IN  /\ _driver_operation_simulate => ok
                /\ _measurement_function' = value
                /\ _cache_valid' =
                      _set_cache_valid(TRUE, "measurement_function")
                /\ inst_function' =
                      IF _driver_operation_simulate \/ failed
                      THEN inst_function
                      ELSE MeasurementFunctionMapping[value]
                /\ last' = Call("set", "measurement_function", value,
                                IF failed THEN "TransportError" ELSE "ok",
                                None, io)
                /\ UNCHANGED <<_driver_operation_simulate, _range,
                               _auto_range, _resolution, _trigger_delay,
                               _trigger_delay_auto, _trigger_source,
                               identity, inst_names>>

_set_measurement_function(value) ==
    IF value \notin DOMAIN MeasurementFunctionMapping
    THEN Returns(Call("set", "measurement_function", value,
                      "ValueNotSupportedException", None, <<>>))
    ELSE IF ~_driver_operation_simulate
    THEN \E ok \in BOOLEAN :
            LET io == <<_write(<<":sense:function %s",
                                 MeasurementFunctionMapping[value]>>)>>
            IN  IF ~ok
                THEN Returns(Call("set", "measurement_function", value,
                                  "TransportError", None, io))
                ELSE /\ inst_function' = MeasurementFunctionMapping[value]
                     /\ _measurement_function' = value
                     /\ _cache_valid' =
                           _set_cache_valid(TRUE, "measurement_function")
                     /\ last' = Call("set", "measurement_function", value,
                                     "ok", None, io)
                     /\ UNCHANGED <<_driver_operation_simulate, _range,
                                    _auto_range, _resolution, _trigger_delay,
                                    _trigger_delay_auto, _trigger_source,
                                    identity, inst_names>>
    ELSE /\ _measurement_function' = value
         /\ _cache_valid' = _set_cache_valid(TRUE, "measurement_function")
         /\ last' = Call("set", "measurement_function", value, "ok", None,
                         <<>>)
         /\ UNCHANGED <<_driver_operation_simulate, _range, _auto_range,
                        _resolution, _trigger_delay, _trigger_delay_auto,
                        _trigger_source, identity, instrument>>

_get_range == Returns(Call("get", "range", None, "ok", _range, <<>>))

_set_range(value) ==
    IF ~CanConvert(value)
    THEN Returns(Call("set", "range", value, "ValueError", None, <<>>))
    ELSE /\ _range' = float(value)
         /\ last' = Call("set", "range", value, "ok", None, <<>>)
         /\ UNCHANGED <<_driver_operation_simulate, _measurement_function,
                        _auto_range, _resolution, _trigger_delay,
                        _trigger_delay_auto, _trigger_source, identity,
                        _cache_valid, instrument>>

_get_auto_range ==
    Returns(Call("get", "auto_range", None, "ok", _auto_range, <<>>))

_set_auto_range(value) ==
    IF ~Defined("Auto")
    THEN Returns(Call("set", "auto_range", value, "NameError", None, <<>>))
    ELSE IF value \notin DOMAIN Binding("Auto")
    THEN Returns(Call("set", "auto_range", value,
                      "ValueNotSupportedException", None, <<>>))
    ELSE /\ _auto_range' = value
         /\ last' = Call("set", "auto_range", value, "ok", None, <<>>)
         /\ UNCHANGED <<_driver_operation_simulate, _measurement_function,
                        _range, _resolution, _trigger_delay,
                        _trigger_delay_auto, _trigger_source, identity,
                        _cache_valid, instrument>>

_get_resolution ==
    Returns(Call("get", "resolution", None, "ok", _resolution, <<>>))

_set_resolution(value) ==
    IF ~CanConvert(value)
    THEN Returns(Call("set", "resolution", value, "ValueError", None, <<>>))
    ELSE /\ _resolution' = float(value)
         /\ last' = Call("set", "resolution", value, "ok", None, <<>>)
         /\ UNCHANGED <<_driver_operation_simulate, _measurement_function,
                        _range, _auto_range, _trigger_delay,
                        _trigger_delay_auto, _trigger_source, identity,
                        _cache_valid, instrument>>

_get_trigger_delay ==
    Returns(Call("get", "trigger_delay", None, "ok", _trigger_delay, <<>>))

_set_trigger_delay(value) ==
    IF ~CanConvert(value)
    THEN Returns(Call("set", "trigger_delay", value, "ValueError", None,
                      <<>>))
    ELSE /\ _trigger_delay' = float(value)
         /\ last' = Call("set", "trigger_delay", value, "ok", None, <<>>)
         /\ UNCHANGED <<_driver_operation_simulate, _measurement_function,
                        _range, _auto_range, _resolution,
                        _trigger_delay_auto, _trigger_source, identity,
                        _cache_valid, instrument>>

_get_trigger_delay_auto ==
    Returns(Call("get", "trigger_delay_auto", None, "ok",
                 _trigger_delay_auto, <<>>))

_set_trigger_delay_auto(value) ==
    /\ _trigger_delay_auto' = bool(value)
    /\ last' = Call("set", "trigger_delay_auto", value, "ok", None, <<>>)
    /\ UNCHANGED <<_driver_operation_simulate, _measurement_function, _range,
                   _auto_range, _resolution, _trigger_delay, _trigger_source,
                   identity, _cache_valid, instrument>>

_get_trigger_source ==
    Returns(Call("get", "trigger_source", None, "ok", _trigger_source, <<>>))

_set_trigger_source(value) ==
    /\ _trigger_source' = str(value)
    /\ last' = Call("set", "trigger_source", value, "ok", None, <<>>)
    /\ UNCHANGED <<_driver_operation_simulate, _measurement_function, _range,
                   _auto_range, _resolution, _trigger_delay,
                   _trigger_delay_auto, identity, _cache_valid,
                   instrument>>

-----------------------------------------------------------------------------
(* Identity *)

IdnReplies ==
    {"AGILENT TECHNOLOGIES,34410A,MY47000001,2.35",
     "Agilent Technologies,34410A,MY47000001",
     "Agilent Technologies"}

\* the identity field the accessor of `tag' returns
IdentityField(tag, manufacturer, model, firmware_revision) ==
    CASE tag = "identity_instrument_manufacturer" -> manufacturer
      [] tag = "identity_instrument_model" -> model
      [] OTHER -> firmware_revision

\* a faulty load that marks only the attribute being read as valid
_load_id_string_marking_one(tag) ==
    IF _driver_operation_simulate
    THEN /\ _identity_instrument_manufacturer' =
                "Not available while simulating"
         /\ _identity_instrument_model' = "Not available while simulating"
         /\ _identity_instrument_firmware_revision' =
                "Not available while simulating"
         /\ last' = Call("get", tag, None, "ok",
                         "Not available while simulating", <<>>)
         /\ UNCHANGED <<_driver_operation_simulate, attrs, _cache_valid,
                        instrument>>
    ELSE \E reply \in Answers(IdnReplies) :
            LET sent == <<_ask(<<"*IDN?">>)>>
                io == <<Answered(sent[1], reply)>>
                lst == split(reply)
            IN  IF reply = NoAnswer
                THEN Returns(Call("get", tag, None, "TransportError", None,
                                  sent))
                ELSE IF Len(lst) < 2
                THEN /\ _identity_instrument_manufacturer' = lst[1]
                     /\ last' = Call("get", tag, None, "IndexError", None, io)
                     /\ UNCHANGED <<_driver_operation_simulate, attrs,
                                    _identity_instrument_model,
                                    _identity_instrument_firmware_revision,
                                    _cache_valid, instrument>>
                ELSE IF Len(lst) < 4
                THEN /\ _identity_instrument_manufacturer' = lst[1]
                     /\ _identity_instrument_model' = lst[2]
                     /\ last' = Call("get", tag, None, "IndexError", None, io)
                     /\ UNCHANGED <<_driver_operation_simulate, attrs,
                                    _identity_instrument_firmware_revision,
                                    _cache_valid, instrument>>
                ELSE /\ _identity_instrument_manufacturer' = lst[1]
                     /\ _identity_instrument_model' = lst[2]
                     /\ _identity_instrument_firmware_revision' = lst[4]
                     /\ _cache_valid' = _set_cache_valid(TRUE, tag)
                     /\ last' = Call("get", tag, None, "ok",
                                     IdentityField(tag, lst[1], lst[2],
                                                   lst[4]), io)
                     /\ UNCHANGED <<_driver_operation_simulate, attrs,
                                    instrument>>

\* self._load_id_string() called from the accessor of `tag', which then
\* returns its field
_load_id_string(tag) ==
    IF _driver_operation_simulate
    THEN /\ _identity_instrument_manufacturer' =
                "Not available while simulating"
         /\ _identity_instrument_model' = "Not available while simulating"
         /\ _identity_instrument_firmware_revision' =
                "Not available while simulating"
         /\ last' = Call("get", tag, None, "ok",
                         "Not available while simulating", <<>>)
         /\ UNCHANGED <<_driver_operation_simulate, attrs, _cache_valid,
                        instrument>>
    ELSE \E reply \in Answers(IdnReplies) :
            LET sent == <<_ask(<<"*IDN?">>)>>
                io == <<Answered(sent[1], reply)>>
                lst == split(reply)
            IN  IF reply = NoAnswer
                THEN Returns(Call("get", tag, None, "TransportError", None,
                                  sent))
                ELSE IF Len(lst) < 2
                THEN /\ _identity_instrument_manufacturer' = lst[1]
                     /\ last' = Call("get", tag, None, "IndexError", None, io)
                     /\ UNCHANGED <<_driver_operation_simulate, attrs,
                                    _identity_instrument_model,
                                    _identity_instrument_firmware_revision,
                                    _cache_valid, instrument>>
                ELSE IF Len(lst) < 4
                THEN /\ _identity_instrument_manufacturer' = lst[1]
                     /\ _identity_instrument_model' = lst[2]
                     /\ last' = Call("get", tag, None, "IndexError", None, io)
                     /\ UNCHANGED <<_driver_operation_simulate, attrs,
                                    _identity_instrument_firmware_revision,
                                    _cache_valid, instrument>>
                ELSE /\ _identity_instrument_manufacturer' = lst[1]
                     /\ _identity_instrument_model' = lst[2]
                     /\ _identity_instrument_firmware_revision' = lst[4]
                     /\ _cache_valid' =
                           [t \in DOMAIN _cache_valid |->
                               IF t \in IdentityNames THEN TRUE
                               ELSE _cache_valid[t]]
                     /\ last' = Call("get", tag, None, "ok",
                                     IdentityField(tag, lst[1], lst[2],
                                                   lst[4]), io)
                     /\ UNCHANGED <<_driver_operation_simulate, attrs,
                                    instrument>>

_get_identity_instrument_manufacturer ==
    IF _get_cache_valid("identity_instrument_manufacturer")
    THEN Returns(Call("get", "identity_instrument_manufacturer", None, "ok",
                      _identity_instrument_manufacturer, <<>>))
    ELSE _load_id_string("identity_instrument_manufacturer")

_get_identity_instrument_model ==
    IF _get_cache_valid("identity_instrument_model")
    THEN Returns(Call("get", "identity_instrument_model", None, "ok",
                      _identity_instrument_model, <<>>))
    ELSE _load_id_string("identity_instrument_model")

_get_identity_instrument_firmware_revision ==
    IF _get_cache_valid("identity_instrument_firmware_revision")
    THEN Returns(Call("get", "identity_instrument_firmware_revision", None,
                      "ok", _identity_instrument_firmware_revision, <<>>))
    ELSE _load_id_string("identity_instrument_firmware_revision")

-----------------------------------------------------------------------------
(* Utility *)

ErrorReplies ==
    {"0,\"No error\"", "1, \"No error\" ", "0,\"a\",\"b\""}

\* numeric reply texts, and one that is no number
NumReplies == {NumText[n + 1] : n \in 0..MaxReading} \cup {"garbage"}

_utility_error_query ==
    IF ~_driver_operation_simulate
    THEN \E reply \in Answers(ErrorReplies) :
            LET sent == <<_ask(<<":system:error?">>)>>
                io == <<Answered(sent[1], reply)>>
                parts == split(reply)
            IN  IF reply = NoAnswer
                THEN Returns(Call("error_query", "", None, "TransportError",
                                  None, sent))
                ELSE IF Len(parts) # 2 \/ ~IsNumText(parts[1])
                THEN Returns(Call("error_query", "", None, "ValueError",
                                  None, io))
                ELSE Returns(Call("error_query", "", None, "ok",
                                  <<ParseNum(parts[1]), strip(parts[2])>>,
                                  io))
    ELSE Returns(Call("error_query", "", None, "ok", <<0, "No error">>,
                      <<>>))

\* a faulty reset that sends *RST and keeps the cache marked as it is
_utility_reset_keeping_cache ==
    IF ~_driver_operation_simulate
    THEN \E ok \in BOOLEAN :
            LET io == <<_write(<<"*RST">>)>>
            IN  IF ~ok
                THEN Returns(Call("reset", "", None, "TransportError", None,
                                  io))
                ELSE /\ inst_function' = InstResetFunction
                     /\ last' = Call("reset", "", None, "ok", None, io)
                     /\ UNCHANGED <<_driver_operation_simulate, attrs,
                                    identity, _cache_valid, inst_names>>
    ELSE Returns(Call("reset", "", None, "ok", None, <<>>))

_utility_reset ==
    IF ~_driver_operation_simulate
    THEN \E ok \in BOOLEAN :
            LET io == <<_write(<<"*RST">>)>>
            IN  IF ~ok
                THEN Returns(Call("reset", "", None, "TransportError", None,
                                  io))
                ELSE /\ inst_function' = InstResetFunction
                     /\ _cache_valid' = invalidate_all_attributes
                     /\ last' = Call("reset", "", None, "ok", None, io)
                     /\ UNCHANGED <<_driver_operation_simulate, attrs,
                                    identity, inst_names>>
    ELSE Returns(Call("reset", "", None, "ok", None, <<>>))

_utility_reset_with_defaults == _utility_reset

\* a faulty self test that reads the result before it waits
_utility_self_test_reading_first ==
    IF ~_driver_operation_simulate
    THEN \E ok \in BOOLEAN, reply \in Answers(NumReplies) :
            LET sent == <<_write(<<"*TST?">>)>>
                waited == sent \o <<_read, sleep(40)>>
                io == sent \o <<Answered(_read, reply), sleep(40)>>
                code == ParseNum(reply)
            IN  IF ~ok
                THEN reply = NoAnswer
                     /\ Returns(Call("self_test", "", None,
                                     "TransportError", None, sent))
                ELSE IF reply = NoAnswer
                THEN Returns(Call("self_test", "", None, "TransportError",
                                  None, waited))
                ELSE IF ~IsNumText(reply)
                THEN Returns(Call("self_test", "", None, "ValueError", None,
                                  io))
                ELSE Returns(Call("self_test", "", None, "ok",
                                  <<code, IF code # 0 THEN "Self test failed"
                                          ELSE "Self test passed">>, io))
    ELSE Returns(Call("self_test", "", None, "ok",
                      <<0, "Self test passed">>, <<>>))

_utility_self_test ==
    IF ~_driver_operation_simulate
    THEN \E ok \in BOOLEAN, reply \in Answers(NumReplies) :
            LET sent == <<_write(<<"*TST?">>)>>
                waited == sent \o <<sleep(40), _read>>
                io == sent \o <<sleep(40), Answered(_read, reply)>>
                code == ParseNum(reply)
            IN  IF ~ok
                THEN reply = NoAnswer
                     /\ Returns(Call("self_test", "", None,
                                     "TransportError", None, sent))
                ELSE IF reply = NoAnswer
                THEN Returns(Call("self_test", "", None, "TransportError",
                                  None, waited))
                ELSE IF ~IsNumText(reply)
                THEN Returns(Call("self_test", "", None, "ValueError", None,
                                  io))
                ELSE Returns(Call("self_test", "", None, "ok",
                                  <<code, IF code # 0 THEN "Self test failed"
                                          ELSE "Self test passed">>, io))
    ELSE Returns(Call("self_test", "", None, "ok",
                      <<0, "Self test passed">>, <<>>))

-----------------------------------------------------------------------------
(* Opening a session *)

\* self._instrument_id
_instrument_id == "AGILENT TECHNOLOGIES,34410A"

\* id = self.identity.instrument_model inside initialize: how the accessor
\* ends, its transport events, and the identity fields and valid flags it
\* leaves, when the query (if it makes one) yields `reply'
IdentityRead(reply) ==
    LET lst == split(reply)
        sent == <<_ask(<<"*IDN?">>)>>
        io == <<Answered(sent[1], reply)>>
        m == _identity_instrument_manufacturer
        o == _identity_instrument_model
        f == _identity_instrument_firmware_revision
    IN  IF _get_cache_valid("identity_instrument_model")
        THEN [outcome |-> "ok", io |-> <<>>, manufacturer |-> m,
              model |-> o, firmware_revision |-> f, valid |-> _cache_valid]
        ELSE IF reply = NoAnswer
        THEN [outcome |-> "TransportError", io |-> sent, manufacturer |-> m,
              model |-> o, firmware_revision |-> f, valid |-> _cache_valid]
        ELSE IF Len(lst) < 2
        THEN [outcome |-> "IndexError", io |-> io, manufacturer |-> lst[1],
              model |-> o, firmware_revision |-> f, valid |-> _cache_valid]
        ELSE IF Len(lst) < 4
        THEN [outcome |-> "IndexError", io |-> io, manufacturer |-> lst[1],
              model |-> lst[2], firmware_revision |-> f,
              valid |-> _cache_valid]
        ELSE [outcome |-> "ok", io |-> io, manufacturer |-> lst[1],
              model |-> lst[2], firmware_revision |-> lst[4],
              valid |-> [t \in DOMAIN _cache_valid |->
                            IF t \in IdentityNames THEN TRUE
                            ELSE _cache_valid[t]]]

\* initialize when it makes no identity check
NoIdentityRead ==
    [outcome |-> "ok", io |-> <<>>,
     manufacturer |-> _identity_instrument_manufacturer,
     model |-> _identity_instrument_model,
     firmware_revision |-> _identity_instrument_firmware_revision,
     valid |-> _cache_valid]

\* initialize ends here with what the identity accessor left behind
Initialized(arg, outcome, io, id) ==
    /\ _identity_instrument_manufacturer' = id.manufacturer
    /\ _identity_instrument_model' = id.model
    /\ _identity_instrument_firmware_revision' = id.firmware_revision
    /\ _cache_valid' = id.valid
    /\ last' = Call("initialize", "", arg, outcome, None, io)
    /\ UNCHANGED <<_driver_operation_simulate, attrs, instrument>>

\* the identity check of initialize and the reset after it
CheckAndReset(id_query, reset, id) ==
    LET arg == <<id_query, reset>>
        io == <<_clear>> \o id.io
        rst == <<_write(<<"*RST">>)>>
        id_check == _instrument_id
        id_short == slice(id.model, len(id_check))
    IN  IF id.outcome # "ok"
        THEN Initialized(arg, id.outcome, io, id)
        ELSE IF id_query /\ id_short # id_check
        THEN Initialized(arg, "Exception", io, id)
        ELSE IF ~reset
        THEN Initialized(arg, "ok", io, id)
        ELSE \/ Initialized(arg, "TransportError", io \o rst, id)
             \/ /\ inst_function' = InstResetFunction
                /\ _cache_valid' = invalidate_all_attributes
                /\ _identity_instrument_manufacturer' = id.manufacturer
                /\ _identity_instrument_model' = id.model
                /\ _identity_instrument_firmware_revision' =
                      id.firmware_revision
                /\ last' = Call("initialize", "", arg, "ok", None,
                                io \o rst)
                /\ UNCHANGED <<_driver_operation_simulate, attrs,
                               inst_names>>

\* initialize(resource, id_query, reset) on a session that opens; in
\* simulation mode nothing is cleared or checked and the reset it may
\* call does nothing
initialize(id_query, reset) ==
    IF _driver_operation_simulate
    THEN Returns(Call("initialize", "", <<id_query, reset>>, "ok", None,
                      <<>>))
    ELSE \/ Returns(Call("initialize", "", <<id_query, reset>>,
                         "TransportError", None, <<_clear>>))
         \/ IF id_query
            THEN \E reply \in
                       IF _get_cache_valid("identity_instrument_model")
                       THEN {NoAnswer} ELSE Answers(IdnReplies) :
                    CheckAndReset(id_query, reset, IdentityRead(reply))
            ELSE CheckAndReset(id_query, reset, NoIdentityRead)

-----------------------------------------------------------------------------
(* Measurement *)

_measurement_abort ==
    IF ~_driver_operation_simulate
    THEN \E ok \in BOOLEAN :
            Returns(Call("abort", "", None,
                         IF ok THEN "ok" ELSE "TransportError", None,
                         <<_write(<<":abort">>)>>))
    ELSE Returns(Call("abort", "", None, "ok", None, <<>>))

_measurement_fetch(max_time) ==
    IF ~_driver_operation_simulate
    THEN \E reply \in Answers(NumReplies) :
            LET sent == <<_ask(<<":fetch?">>)>>
                io == <<Answered(sent[1], reply)>>
            IN  IF reply = NoAnswer
                THEN Returns(Call("fetch", "", max_time, "TransportError",
                                  None, sent))
                ELSE IF ~IsNumText(reply)
                THEN Returns(Call("fetch", "", max_time, "ValueError", None,
                                  io))
                ELSE Returns(Call("fetch", "", max_time, "ok",
                                  ParseNum(reply), io))
    ELSE Returns(Call("fetch", "", max_time, "ok", 0, <<>>))

_measurement_initiate ==
    IF ~_driver_operation_simulate
    THEN \E ok \in BOOLEAN :
            Returns(Call("initiate", "", None,
                         IF ok THEN "ok" ELSE "TransportError", None,
                         <<_write(<<":initiate">>)>>))
    ELSE Returns(Call("initiate", "", None, "ok", None, <<>>))

\* a faulty read that queries the instrument whatever the mode
_measurement_read_ignoring_simulate(max_time) ==
    \E reply \in Answers(NumReplies) :
        LET sent == <<_ask(<<":read?">>)>>
            io == <<Answered(sent[1], reply)>>
        IN  IF reply = NoAnswer
            THEN Returns(Call("read", "", max_time, "TransportError", None,
                              sent))
            ELSE IF ~IsNumText(reply)
            THEN Returns(Call("read", "", max_time, "ValueError", None, io))
            ELSE Returns(Call("read", "", max_time, "ok", ParseNum(reply),
                              io))

_measurement_read(max_time) ==
    IF ~_driver_operation_simulate
    THEN \E reply \in Answers(NumReplies) :
            LET sent == <<_ask(<<":read?">>)>>
                io == <<Answered(sent[1], reply)>>
            IN  IF reply = NoAnswer
                THEN Returns(Call("read", "", max_time, "TransportError",
                                  None, sent))
                ELSE IF ~IsNumText(reply)
                THEN Returns(Call("read", "", max_time, "ValueError", None,
                                  io))
                ELSE Returns(Call("read", "", max_time, "ok",
                                  ParseNum(reply), io))
    ELSE Returns(Call("read", "", max_time, "ok", 0, <<>>))

-----------------------------------------------------------------------------
(* Memory slots *)

\* what `raise OutOfRangeException()' raises
RaisedOutOfRange ==
    IF Defined("OutOfRangeException") THEN "OutOfRangeException"
    ELSE "NameError"

\* the function tokens a stored instrument state may hold
StoredFunctions ==
    {MeasurementFunctionMapping[f] :
        f \in FunctionValues \cap DOMAIN MeasurementFunctionMapping}

\* what the instrument may answer to memory:state:name? for a slot that
\* holds `name': the name in double quotes, with or without white space
\* before it
NameReplies(name) ==
    IF name = "cal-ref" THEN {"\"cal-ref\"", " \"cal-ref\""}
    ELSE {"\"\""}

\* the slot names after the instrument takes the command
\* memory:state:name <slot>, "<name>"
InstStoreName(text) == [inst_names EXCEPT ![text[2]] = text[3]]

\* a faulty save whose upper bound check is off by one
_memory_save_rejecting_last(index) ==
    IF int(index) < 1 \/ int(index) >= memory_size
    THEN Returns(Call("memory.save", "", index, RaisedOutOfRange, None,
                      <<>>))
    ELSE IF ~_driver_operation_simulate
    THEN \E ok \in BOOLEAN :
            Returns(Call("memory.save", "", index,
                         IF ok THEN "ok" ELSE "TransportError", None,
                         <<_write(<<"*sav %d", int(index)>>)>>))
    ELSE Returns(Call("memory.save", "", index, "ok", None, <<>>))

_memory_save(index) ==
    IF int(index) < 1 \/ int(index) > memory_size
    THEN Returns(Call("memory.save", "", index, RaisedOutOfRange, None,
                      <<>>))
    ELSE IF ~_driver_operation_simulate
    THEN \E ok \in BOOLEAN :
            Returns(Call("memory.save", "", index,
                         IF ok THEN "ok" ELSE "TransportError", None,
                         <<_write(<<"*sav %d", int(index)>>)>>))
    ELSE Returns(Call("memory.save", "", index, "ok", None, <<>>))

\* a faulty recall that marks every cached attribute invalid
_memory_recall_invalidating(index) ==
    IF int(index) < 1 \/ int(index) > memory_size
    THEN Returns(Call("memory.recall", "", index, RaisedOutOfRange, None,
                      <<>>))
    ELSE IF ~_driver_operation_simulate
    THEN \E ok \in BOOLEAN :
            LET io == <<_write(<<"*rcl %d", int(index)>>)>>
            IN  IF ~ok
                THEN Returns(Call("memory.recall", "", index,
                                  "TransportError", None, io))
                ELSE /\ inst_function' \in StoredFunctions
                     /\ _cache_valid' = invalidate_all_attributes
                     /\ last' = Call("memory.recall", "", index, "ok", None,
                                     io)
                     /\ UNCHANGED <<_driver_operation_simulate, attrs,
                                    identity, inst_names>>
    ELSE Returns(Call("memory.recall", "", index, "ok", None, <<>>))

_memory_recall(index) ==
    IF int(index) < 1 \/ int(index) > memory_size
    THEN Returns(Call("memory.recall", "", index, RaisedOutOfRange, None,
                      <<>>))
    ELSE IF ~_driver_operation_simulate
    THEN \E ok \in BOOLEAN :
            LET io == <<_write(<<"*rcl %d", int(index)>>)>>
            IN  IF ~ok
                THEN Returns(Call("memory.recall", "", index,
                                  "TransportError", None, io))
                ELSE /\ inst_function' \in StoredFunctions
                     /\ last' = Call("memory.recall", "", index, "ok", None,
                                     io)
                     /\ UNCHANGED <<_driver_operation_simulate, attrs,
                                    identity, _cache_valid, inst_names>>
    ELSE Returns(Call("memory.recall", "", index, "ok", None, <<>>))

\* a faulty getName that hands back the reply as the instrument sent it
_get_memory_name_unstripped(index) ==
    IF int(index) < 1 \/ int(index) > memory_size
    THEN Returns(Call("memory.get_name", "", index, RaisedOutOfRange, None,
                      <<>>))
    ELSE IF ~_driver_operation_simulate
    THEN \E reply \in Answers(NameReplies(inst_names[int(index)])) :
            LET sent == <<_ask(<<"memory:state:name? %d", int(index)>>)>>
                io == <<Answered(sent[1], reply)>>
            IN  IF reply = NoAnswer
                THEN Returns(Call("memory.get_name", "", index,
                                  "TransportError", None, sent))
                ELSE Returns(Call("memory.get_name", "", index, "ok",
                                  reply, io))
    ELSE Returns(Call("memory.get_name", "", index, "ok", None, <<>>))

_get_memory_name(index) ==
    IF int(index) < 1 \/ int(index) > memory_size
    THEN Returns(Call("memory.get_name", "", index, RaisedOutOfRange, None,
                      <<>>))
    ELSE IF ~_driver_operation_simulate
    THEN \E reply \in Answers(NameReplies(inst_names[int(index)])) :
            LET sent == <<_ask(<<"memory:state:name? %d", int(index)>>)>>
                io == <<Answered(sent[1], reply)>>
            IN  IF reply = NoAnswer
                THEN Returns(Call("memory.get_name", "", index,
                                  "TransportError", None, sent))
                ELSE Returns(Call("memory.get_name", "", index, "ok",
                                  strip(reply), io))
    ELSE Returns(Call("memory.get_name", "", index, "ok", None, <<>>))

_set_memory_name(index, value) ==
    IF int(index) < 1 \/ int(index) > memory_size
    THEN Returns(Call("memory.set_name", "", <<index, value>>,
                      RaisedOutOfRange, None, <<>>))
    ELSE IF ~_driver_operation_simulate
    THEN \E ok \in BOOLEAN :
            LET io == <<_write(<<"memory:state:name %d, \"%s\"",
                                 int(index), str(value)>>)>>
            IN  IF ~ok
                THEN Returns(Call("memory.set_name", "", <<index, value>>,
                                  "TransportError", None, io))
                ELSE /\ inst_names' = InstStoreName(io[1].text)
                     /\ last' = Call("memory.set_name", "",
                                     <<index, value>>, "ok", None, io)
                     /\ UNCHANGED <<_driver_operation_simulate, attrs,
                                    identity, _cache_valid, inst_function>>
    ELSE Returns(Call("memory.set_name", "", <<index, value>>, "ok", None,
                      <<>>))

-----------------------------------------------------------------------------
(* Values callers pass to the measurement and memory calls *)

MaxTimes == {1}

Indices == (1 - IndexSlack)..(memory_size + IndexSlack)

NameValues == {"cal-ref"}

\* the attributes whose cached value differs from its construction value
Touched ==
    {a \in AttributeNames :
        CASE a = "measurement_function" -> _measurement_function # "dc_volts"
          [] a = "range" -> _range # 0
          [] a = "auto_range" -> _auto_range # "off"
          [] a = "resolution" -> _resolution # 0
          [] a = "trigger_delay" -> _trigger_delay # 0
          [] a = "trigger_delay_auto" -> _trigger_delay_auto # FALSE
          [] OTHER -> _trigger_source # ""}

\* the memory slots that hold a name
Named == {slot \in 1..memory_size : inst_names[slot] # ""}

\* the caller is within its bound when it sets attribute a
CallerMay(a) ==
    a \in Touched \/ Cardinality(Touched) + Cardinality(Named) < MaxTouched

\* the caller is within its bound when it names slot `index'
CallerMayName(index) ==
    \/ _driver_operation_simulate
    \/ index \notin 1..memory_size
    \/ index \in Named
    \/ Cardinality(Touched) + Cardinality(Named) < MaxTouched

-----------------------------------------------------------------------------
(* The driver's calls, in any order *)

Next ==
    \/ \E value \in BOOLEAN : _set_driver_operation_simulate(value)
    \/ \E id_query \in BOOLEAN, reset \in BOOLEAN :
            initialize(id_query, reset)
    \/ _get_identity_instrument_manufacturer
    \/ _get_identity_instrument_model
    \/ _get_identity_instrument_firmware_revision
    \/ _utility_error_query
    \/ _utility_reset
    \/ _utility_reset_with_defaults
    \/ _utility_self_test
    \/ _get_measurement_function
    \/ \E value \in FunctionValues :
            CallerMay("measurement_function")
                /\ _set_measurement_function(value)
    \/ _get_range
    \/ \E value \in NumValues :
            CallerMay("range") /\ _set_range(value)
    \/ _get_auto_range
    \/ \E value \in AutoValues : _set_auto_range(value)
    \/ _get_resolution
    \/ \E value \in NumValues :
            CallerMay("resolution") /\ _set_resolution(value)
    \/ _get_trigger_delay
    \/ \E value \in NumValues :
            CallerMay("trigger_delay") /\ _set_trigger_delay(value)
    \/ _get_trigger_delay_auto
    \/ \E value \in BoolValues :
            CallerMay("trigger_delay_auto") /\ _set_trigger_delay_auto(value)
    \/ _get_trigger_source
    \/ \E value \in SourceValues :
            CallerMay("trigger_source") /\ _set_trigger_source(value)
    \/ _measurement_abort
    \/ \E max_time \in MaxTimes : _measurement_fetch(max_time)
    \/ _measurement_initiate
    \/ \E max_time \in MaxTimes : _measurement_read(max_time)
    \/ \E index \in Indices : _memory_save(index)
    \/ \E index \in Indices : _memory_recall(index)
    \/ \E index \in Indices : _get_memory_name(index)
    \/ \E index \in Indices, value \in NameValues :
            CallerMayName(index) /\ _set_memory_name(index, value)

Spec == Init /\ [][Next]_vars

-----------------------------------------------------------------------------
(* Vocabulary of the properties *)

\* the cached value of attribute a
Cached(a) ==
    CASE a = "measurement_function" -> _measurement_function
      [] a = "range" -> _range
      [] a = "auto_range" -> _auto_range
      [] a = "resolution" -> _resolution
      [] a = "trigger_delay" -> _trigger_delay
      [] a = "trigger_delay_auto" -> _trigger_delay_auto
      [] OTHER -> _trigger_source

\* the value the instrument has for attribute a, as the driver would cache
\* it.  The driver sends no command for any attribute but the function, so
\* the instrument keeps its power-on value for the others.
InstValue(a) ==
    CASE a = "measurement_function" ->
            CHOOSE f \in DOMAIN MeasurementFunctionMapping :
                MeasurementFunctionMapping[f] = inst_function
      [] a = "range" -> 0
      [] a = "auto_range" -> "off"
      [] a = "resolution" -> 0
      [] a = "trigger_delay" -> 0
      [] a = "trigger_delay_auto" -> FALSE
      [] OTHER -> ""

\* the auto-range modes
AutoModes == {"off", "on", "once"}

\* the value a setter of attribute a is given, as the attribute's type
Given(a, arg) ==
    IF a \in {"range", "resolution", "trigger_delay"} THEN arg.n ELSE arg

\* value arg lies in the domain of attribute a
InDomain(a, arg) ==
    CASE a = "measurement_function" ->
            arg \in DOMAIN MeasurementFunctionMapping
      [] a = "auto_range" -> arg \in AutoModes
      [] a \in {"range", "resolution", "trigger_delay"} -> arg.isnum
      [] OTHER -> TRUE

MemoryOps ==
    {"memory.save", "memory.recall", "memory.get_name", "memory.set_name"}

\* the index a memory call was given
IndexOf(call) ==
    IF call.op = "memory.set_name" THEN call.arg[1] ELSE call.arg

-----------------------------------------------------------------------------
(* Properties *)

\* C1: for every attribute and every value v of its domain, a set(v) that
\* succeeds leaves the attribute's valid flag true and its cached value
\* equal to v, and a get that follows immediately returns v without any
\* transport call.
C1_SetThenGet ==
    [][ /\ \A a \in AttributeNames :
              (last'.op = "set" /\ last'.attr = a /\ last'.outcome = "ok")
                => /\ _cache_valid'[a]
                   /\ Cached(a)' = Given(a, last'.arg)
        /\ (/\ last.op = "set" /\ last.outcome = "ok"
            /\ last'.op = "get" /\ last'.attr = last.attr)
            => /\ last'.outcome = "ok"
               /\ last'.ret = Given(last.attr, last.arg)
               /\ TransportCalls(last'.io) = 0 ]_vars

\* C2: no two functions share a command token, and a get of
\* measurement_function that queries an instrument answering with the
\* token of function f returns f.
C2_RoundTrip ==
    /\ \A f, g \in DOMAIN MeasurementFunctionMapping :
          MeasurementFunctionMapping[f] = MeasurementFunctionMapping[g]
              => f = g
    /\ (/\ last.op = "get" /\ last.attr = "measurement_function"
        /\ Queries(last.io) = 1 /\ last.outcome # "TransportError")
        => /\ last.outcome = "ok"
           /\ last.ret \in DOMAIN MeasurementFunctionMapping
           /\ MeasurementFunctionMapping[last.ret] = inst_function

\* C3: outside simulation mode, after a reset the next get of every
\* attribute that was valid before the reset issues exactly one transport
\* query.
C3_GetAfterReset ==
    [][ (/\ last.op = "reset" /\ last.outcome = "ok" /\ Writes(last.io) = 1
         /\ last'.op = "get" /\ last'.attr \in AttributeNames
         /\ last.was_valid[last'.attr])
            => Queries(last'.io) = 1 ]_vars

\* C4: outside simulation mode, an attribute that has just been set or read
\* back and is marked valid holds the value the instrument has for it, and
\* still does so after one more call of any kind if it is still marked
\* valid.
C4_CacheCoherent ==
    [][ \A a \in AttributeNames :
          (/\ ~_driver_operation_simulate /\ ~_driver_operation_simulate'
           /\ last.attr = a /\ last.outcome = "ok"
           /\ \/ last.op = "set"
              \/ last.op = "get" /\ Queries(last.io) = 1)
              => /\ _cache_valid[a] => Cached(a) = InstValue(a)
                 /\ _cache_valid'[a] => Cached(a)' = InstValue(a)' ]_vars

\* C5: outside simulation mode every attribute set that succeeds issues
\* exactly one transport write and no query, and a set that fails
\* validation issues no transport call.
C5_OneWritePerSet ==
    (~_driver_operation_simulate /\ last.op = "set")
        => /\ last.outcome = "ok"
                => Writes(last.io) = 1 /\ TransportCalls(last.io) = 1
           /\ last.outcome \notin {"ok", "TransportError"}
                => TransportCalls(last.io) = 0

\* C6: a set of measurement_function or auto_range to a value outside the
\* attribute's domain fails with ValueNotSupportedException, makes no
\* transport call and leaves the cached value and the valid flag as they
\* were; a set of auto_range to one of the modes does not fail.
C6_RejectOutsideDomain ==
    [][ \A a \in {"measurement_function", "auto_range"} :
          (last'.op = "set" /\ last'.attr = a)
              => IF ~InDomain(a, last'.arg)
                 THEN /\ last'.outcome = "ValueNotSupportedException"
                      /\ TransportCalls(last'.io) = 0
                      /\ Cached(a)' = Cached(a)
                      /\ _cache_valid'[a] = _cache_valid[a]
                 ELSE a = "auto_range" => last'.outcome = "ok" ]_vars

\* C7: in either mode, save, recall, getName and setName with an index
\* outside 1..memory_size fail with OutOfRangeException and make no
\* transport call.
C7_IndexRejected ==
    (last.op \in MemoryOps /\ IndexOf(last) \notin 1..memory_size)
        => /\ last.outcome = "OutOfRangeException"
           /\ TransportCalls(last.io) = 0

\* C8: save, recall, getName and setName with an index in 1..memory_size
\* make exactly one transport call outside simulation mode (a write for
\* save, recall and setName, a query for getName) and none in simulation
\* mode, and never fail on the index.
C8_IndexAccepted ==
    (last.op \in MemoryOps /\ IndexOf(last) \in 1..memory_size)
        => /\ last.outcome \in {"ok", "TransportError"}
           /\ TransportCalls(last.io) =
                 IF _driver_operation_simulate THEN 0 ELSE 1
           /\ ~_driver_operation_simulate
                => IF last.op = "memory.get_name"
                   THEN Queries(last.io) = 1
                   ELSE Writes(last.io) = 1

\* a query for the name of the last slot outside simulation mode
C8_Witness ==
    /\ ~_driver_operation_simulate
    /\ last.op = "memory.get_name" /\ IndexOf(last) = memory_size
    /\ last.outcome = "ok" /\ Queries(last.io) = 1

\* C9: in simulation mode no call makes a transport call, and a set with a
\* value of the attribute's domain updates the cached value.
C9_SimulationIsLocal ==
    [][ (_driver_operation_simulate' /\ last'.op # "set_simulate")
            => /\ TransportCalls(last'.io) = 0
               /\ \A a \in AttributeNames :
                    (/\ last'.op = "set" /\ last'.attr = a
                     /\ InDomain(a, last'.arg))
                        => Cached(a)' = Given(a, last'.arg) ]_vars

\* C10: in simulation mode read and fetch return 0.0 without a transport
\* call, and the self test returns code 0 with the success message without
\* waiting and without a transport call.
C10_SimulatedResults ==
    _driver_operation_simulate
        => /\ last.op \in {"read", "fetch"}
                => /\ last.outcome = "ok" /\ last.ret = 0
                   /\ last.io = <<>>
           /\ last.op = "self_test"
                => /\ last.outcome = "ok"
                   /\ last.ret = <<0, "Self test passed">>
                   /\ last.io = <<>>

\* a simulated read while the cache is invalidated
C10_Witness ==
    /\ _driver_operation_simulate
    /\ last.op = "read" /\ last.ret = 0
    /\ ~_cache_valid["measurement_function"]

\* the command tokens of the function table
Tokens ==
    {MeasurementFunctionMapping[f] : f \in DOMAIN MeasurementFunctionMapping}

\* the call queried the function and was answered with a token the table
\* does not hold
UnknownTokenAnswer(call) ==
    /\ call.op = "get" /\ call.attr = "measurement_function"
    /\ Queries(call.io) = 1
    /\ Replies(call.io) # {}
    /\ \A r \in Replies(call.io) : lower(r) \notin Tokens

\* C11: outside simulation mode, a get of measurement_function with an
\* invalid cache that is answered with a token absent from the table fails
\* with DeviceResponseError and leaves the valid flag false and the cached
\* value unchanged, so that the next get queries the transport again.
C11_UnknownToken ==
    [][ /\ UnknownTokenAnswer(last')
            => /\ last'.outcome = "DeviceResponseError"
               /\ ~_cache_valid'["measurement_function"]
               /\ _measurement_function' = _measurement_function
        /\ (/\ UnknownTokenAnswer(last) /\ ~_driver_operation_simulate'
            /\ last'.op = "get" /\ last'.attr = "measurement_function")
            => Queries(last'.io) = 1 ]_vars

\* the identification text begins with the instrument-family prefix
BeginsWithFamily(text) == slice(text, len(_instrument_id)) = _instrument_id

\* the error initialize raises on a mismatch (line 95)
IdentityMismatch == "Exception"

\* C12: initialize with id_query outside simulation mode fails with the
\* identity-mismatch error exactly when the instrument's identification
\* does not begin with 'AGILENT TECHNOLOGIES,34410A'; an instrument whose
\* *IDN? response begins with it passes the check, and initialize goes on
\* to the reset if one was asked for.  In simulation mode there is no
\* check.
C12_IdentityCheck ==
    last.op = "initialize"
        => /\ _driver_operation_simulate
                => last.outcome = "ok" /\ last.io = <<>>
           /\ (~_driver_operation_simulate /\ last.arg[1])
                => \A r \in Replies(last.io) :
                      IF BeginsWithFamily(r)
                      THEN /\ last.outcome \in {"ok", "TransportError"}
                           /\ Writes(last.io) = IF last.arg[2] THEN 1 ELSE 0
                      ELSE last.outcome = IdentityMismatch

C14_FailedWriteStoresNothing ==
    [][ (/\ last'.op = "set" /\ last'.attr = "measurement_function"
         /\ last'.outcome = "TransportError")
            => /\ ~_driver_operation_simulate
               /\ Writes(last'.io) = 1 /\ TransportCalls(last'.io) = 1
               /\ _measurement_function' = _measurement_function
               /\ _cache_valid' = _cache_valid ]_vars

\* a failed set of another function than the cached one, while the cache
\* is marked invalid
C14_Witness ==
    /\ last.op = "set" /\ last.attr = "measurement_function"
    /\ last.outcome = "TransportError" /\ Writes(last.io) = 1
    /\ last.arg = "ac_volts" /\ _measurement_function = "dc_volts"
    /\ ~_cache_valid["measurement_function"]

\* the call read an identity attribute by loading the identification
\* from the instrument
IdentityLoaded(call) ==
    /\ call.op = "get" /\ call.attr \in IdentityNames
    /\ call.outcome = "ok" /\ call.io # <<>>

\* the field of the reply to *IDN? that identity attribute `tag' takes
FieldOf(tag, io) ==
    LET lst == split(CHOOSE r \in Replies(io) : TRUE)
    IN  IdentityField(tag, lst[1], lst[2], lst[4])

\* C15: outside simulation mode a successful identity load issues exactly
\* one *IDN? query, stores fields 1, 2 and 4 of the reply and marks the
\* three identity attributes valid; a get of an identity attribute that is
\* marked valid returns the stored field without a transport call, so the
\* get of any of the three right after a load returns its field of the
\* loaded reply.
C15_LoadOnce ==
    [][ /\ (IdentityLoaded(last') /\ ~_driver_operation_simulate')
            => /\ Queries(last'.io) = 1 /\ TransportCalls(last'.io) = 1
               /\ last'.io[1].text = <<"*IDN?">>
               /\ \A t \in IdentityNames : _cache_valid'[t]
               /\ _identity_instrument_manufacturer' =
                     FieldOf("identity_instrument_manufacturer", last'.io)
               /\ _identity_instrument_model' =
                     FieldOf("identity_instrument_model", last'.io)
               /\ _identity_instrument_firmware_revision' =
                     FieldOf("identity_instrument_firmware_revision",
                             last'.io)
               /\ last'.ret = FieldOf(last'.attr, last'.io)
        /\ (/\ ~_driver_operation_simulate'
            /\ last'.op = "get" /\ last'.attr \in IdentityNames
            /\ _cache_valid[last'.attr])
            => /\ last'.outcome = "ok" /\ last'.io = <<>>
               /\ last'.ret =
                     IdentityField(last'.attr,
                                   _identity_instrument_manufacturer,
                                   _identity_instrument_model,
                                   _identity_instrument_firmware_revision)
        /\ (/\ IdentityLoaded(last) /\ ~_driver_operation_simulate
            /\ ~_driver_operation_simulate'
            /\ last'.op = "get" /\ last'.attr \in IdentityNames)
            => /\ last'.io = <<>>
               /\ last'.ret = FieldOf(last'.attr, last.io) ]_vars

\* the firmware revision returned from the cache after the get of another
\* identity attribute loaded it
C15_Witness ==
    /\ ~_driver_operation_simulate
    /\ last.op = "get"
    /\ last.attr = "identity_instrument_firmware_revision"
    /\ last.io = <<>> /\ last.ret = "2.35"
    /\ \A t \in IdentityNames : _cache_valid[t]

\* the call queried the identification and was answered with fewer than
\* four comma-separated fields
ShortIdentification(call) ==
    /\ call.op = "get" /\ call.attr \in IdentityNames
    /\ Replies(call.io) # {}
    /\ \A r \in Replies(call.io) : Len(split(r)) < 4

\* C16: outside simulation mode, an identity load whose *IDN? reply has
\* fewer than four comma-separated fields fails with DeviceResponseError,
\* makes none of the three identity attributes valid and changes none of
\* their stored values.
C16_ShortReplyNoEffect ==
    [][ (ShortIdentification(last') /\ ~_driver_operation_simulate')
            => /\ last'.outcome = "DeviceResponseError"
               /\ \A t \in IdentityNames : ~_cache_valid'[t]
               /\ identity' = identity ]_vars

MeasurementOps == {"abort", "initiate", "read", "fetch"}

\* C17: abort, initiate, read, fetch, save, recall, getName and setName,
\* whether they succeed or fail and in either mode, leave every cached
\* value and every valid flag as they were; abort changes nothing in the
\* driver at all and sends at most its one ':abort' write.
C17_NoCacheInteraction ==
    [][ /\ last'.op \in MeasurementOps \cup MemoryOps
            => /\ attrs' = attrs
               /\ identity' = identity
               /\ _cache_valid' = _cache_valid
               /\ _driver_operation_simulate' = _driver_operation_simulate
        /\ last'.op = "abort"
            => /\ instrument' = instrument
               /\ last'.io \in {<<>>, <<_write(<<":abort">>)>>}
               /\ last'.ret = None ]_vars

\* a recall that changed the instrument's function under a cache that is
\* still marked valid
C17_Witness ==
    /\ ~_driver_operation_simulate
    /\ last.op = "memory.recall" /\ last.outcome = "ok"
    /\ Writes(last.io) = 1
    /\ _cache_valid["measurement_function"]
    /\ MeasurementFunctionMapping[_measurement_function] # inst_function

\* C18: outside simulation mode reset issues exactly one transport write,
\* '*RST', and no query, and when the write succeeds it sets every valid
\* flag to false and changes no cached value; in simulation mode reset
\* makes no transport call and changes no cached value and no valid flag.
C18_ResetInvalidates ==
    [][ last'.op = "reset"
            => /\ attrs' = attrs /\ identity' = identity
               /\ IF _driver_operation_simulate
                  THEN /\ last'.outcome = "ok" /\ last'.io = <<>>
                       /\ _cache_valid' = _cache_valid
                       /\ instrument' = instrument
                  ELSE /\ last'.io = <<_write(<<"*RST">>)>>
                       /\ Queries(last'.io) = 0
                       /\ last'.outcome = "ok"
                            => \A t \in DOMAIN _cache_valid :
                                  ~_cache_valid'[t]
                       /\ last'.outcome # "ok"
                            => _cache_valid' = _cache_valid ]_vars

\* a reset that found the function valid and away from its construction
\* value and left it stored and invalid
C18_Witness ==
    /\ ~_driver_operation_simulate
    /\ last.op = "reset" /\ last.outcome = "ok"
    /\ last.was_valid["measurement_function"]
    /\ _measurement_function = "ac_volts"
    /\ \A t \in DOMAIN _cache_valid : ~_cache_valid[t]

\* the kinds of the events in io, in order
Kinds(io) == [i \in 1..Len(io) |-> io[i].kind]

\* C19: outside simulation mode the self test writes '*TST?', then waits
\* the settling time, then reads the result code, never in another order;
\* it returns the failure message exactly when the code is not 0 and the
\* success message exactly when it is 0, and it changes no cached value
\* and no valid flag.
C19_SelfTestOrder ==
    [][ (last'.op = "self_test" /\ ~_driver_operation_simulate)
            => /\ attrs' = attrs /\ identity' = identity
               /\ _cache_valid' = _cache_valid
               /\ Kinds(last'.io) \in
                     {<<"write">>, <<"write", "sleep", "read">>}
               /\ last'.io[1].text = <<"*TST?">>
               /\ last'.outcome = "ok"
                    => /\ Len(last'.io) = 3
                       /\ last'.io[2] = sleep(40)
                       /\ \A r \in Replies(last'.io) :
                             last'.ret[1] = ParseNum(r)
                       /\ last'.ret[2] =
                             IF last'.ret[1] # 0 THEN "Self test failed"
                             ELSE "Self test passed" ]_vars

\* a self test on the instrument that ended with a code other than 0
C19_Witness ==
    /\ ~_driver_operation_simulate
    /\ last.op = "self_test" /\ last.outcome = "ok"
    /\ last.ret = <<1, "Self test failed">>
    /\ Kinds(last.io) = <<"write", "sleep", "read">>

=============================================================================
